---- MODULE Spec2Model ----
(***************************************************************************)
(* A model of vantage/task.py: the task locator (get_task,                 *)
(* get_task_from_dir), the metadata loader (load_meta), the environment    *)
(* composer (update_env, get_flag), the placeholder substitution           *)
(* (insert_env_vals) and the orchestrator task_cmd with its recursive      *)
(* execution of prerequisites and its direct and container invocations.    *)
(*                                                                         *)
(* Python values are represented as follows.                               *)
(*   dict            a function whose DOMAIN is the set of keys            *)
(*   Optional[x]     the empty set for None, the singleton {x} otherwise   *)
(*   pathlib.Path    a sequence of file names                              *)
(*   file name       a record [stem, ext]; ext = "" when there is no dot   *)
(*   file text       the sequence of its lines, each a scanned str         *)
(*   image           [kind, tag, items]: a bare string, or a mapping held  *)
(*                   as its <<key, value>> items in iteration order        *)
(*   str (scanned)   a sequence of symbols: one-character strings, or      *)
(*                   whole words where no scan can split them              *)
(***************************************************************************)
EXTENDS Integers, Sequences, FiniteSets, TLC

VARIABLES
    fs,         \* the file system: Path -> [kind, ls]
    content,    \* the text of each task file: Path -> its lines
    ambient,    \* ctx.obj as the run found it, before any task touched it
    korder,     \* the iteration order of the keys of ctx.obj and of each defaults dict
    osPath,     \* os.environ.get("PATH"): {} when unset, {value} otherwise
    parsed,     \* what parsing each task file yields (yaml document, before any mutation)
    ctxObj,     \* ctx.obj, the one environment dict shared by the whole run
    cache,      \* lru_cache of load_meta: path -> the (mutable) meta dict
    stack,      \* the call stack of task_cmd activations, innermost last
    log,        \* the spawn/exit events of child processes, in order
    result,     \* how the run ended, or "running"
    query,      \* locator runs: the lookup being made [env, name]
    lstate,     \* locator runs: position of get_task's loop and its outcome
    sub         \* substitution runs: the call of insert_env_vals and its outcome

vars == <<fs, content, ambient, korder, osPath, parsed, ctxObj, cache, stack, log, result, query, lstate, sub>>

-----------------------------------------------------------------------------
(* Python helpers *)

None == {}

Some(x) == {x}

The(o) == CHOOSE x \in o : TRUE

EmptyDict == <<>>

\* dict.get(k): None when the key is absent
Get(d, k) == IF k \in DOMAIN d THEN Some(d[k]) ELSE None

\* a.update(b): the value of a afterwards
Update(a, b) == [k \in (DOMAIN a) \cup (DOMAIN b) |-> IF k \in DOMAIN b THEN b[k] ELSE a[k]]

\* d[k] = v
SetItem(d, k, v) == [x \in (DOMAIN d) \cup {k} |-> IF x = k THEN v ELSE d[x]]

\* bool(x) of an Optional[str]: None and "" are false
Truthy(o) == o # None /\ The(o) # ""

Last(s) == s[Len(s)]

\* needle in str
Contains(str, needle) ==
    \E i \in 1..(Len(str) - Len(needle) + 1) : SubSeq(str, i, i + Len(needle) - 1) = needle

\* the keys of a dict after a.update(b), in iteration order: those of a, then the
\* new ones in the order of b
KeysAfterUpdate(a, b) == a \o SelectSeq(b, LAMBDA k : \A i \in 1..Len(a) : a[i] # k)

\* the order in which the documents and the ambient environment of the runs list
\* their keys
KeyOrder == <<"VG_APP_DIR", "VG_VERBOSE", "VG_RUN_REQUIRED", "PATH", "X", "Y">>

\* the keys of a dict no code has updated yet, in iteration order
DeclOrder(d) == SelectSeq(KeyOrder, LAMBDA k : k \in DOMAIN d)

\* no dict to order
NoOrder == [ctx |-> <<>>, defaults |-> <<>>]

-----------------------------------------------------------------------------
(* The file system *)

FN(stem, ext) == [stem |-> stem, ext |-> ext]

F(stem) == FN(stem, "")

\* Path.is_dir()
IsDir(p) == p \in DOMAIN fs /\ fs[p].kind = "dir"

\* is_executable(path): a regular file with execute permission
is_executable(p) == p \in DOMAIN fs /\ fs[p].kind = "exec"

\* dir_.glob(f"{name}.*"): the children whose name is `name`, a dot, and more,
\* in the order the directory lists them
Glob(dir, name) ==
    LET hits == SelectSeq(fs[dir].ls, LAMBDA fn : fn.stem = name /\ fn.ext # "")
    IN  [i \in 1..Len(hits) |-> Append(dir, hits[i])]

\* the locator's results: a click.Command for a file, a click.Group for a directory
NoTask == [kind |-> "None", path |-> <<>>]

as_command(p) == [kind |-> "Leaf", path |-> p]

as_group(p) == [kind |-> "Group", path |-> p]

FirstExecutable(g) ==
    LET idx == {i \in 1..Len(g) : is_executable(g[i])}
    IN  IF idx = {} THEN None ELSE Some(g[CHOOSE i \in idx : \A j \in idx : i <= j])

\* the loop variable of `for task_path in dir_.glob(...)` is still bound after the
\* loop: to the last path the glob produced, or to dir_ / name when it produced none
PathAfterGlob(dir, name, g) == IF Len(g) = 0 THEN Append(dir, F(name)) ELSE Last(g)

RECURSIVE get_task_from_dir(_, _)
get_task_from_dir(dir, name) ==
    LET task_path == Append(dir, F(name))
        g == Glob(dir, name)
        after == PathAfterGlob(dir, name, g)
    IN  IF is_executable(task_path) THEN as_command(task_path)
        ELSE IF FirstExecutable(g) # None THEN as_command(The(FirstExecutable(g)))
        ELSE IF IsDir(after)
             THEN LET nested == get_task_from_dir(after, name)
                  IN  IF nested # NoTask THEN nested ELSE as_group(after)
             ELSE NoTask

get_task_dir(env) ==
    IF Truthy(Get(env, "VG_TASKS_DIR")) THEN <<F(env["VG_TASKS_DIR"])>>
    ELSE <<F(env["VG_APP_DIR"]), F("tasks")>>

get_plugins_dir(env) ==
    IF Truthy(Get(env, "VG_PLUGINS_DIR")) THEN <<F(env["VG_PLUGINS_DIR"])>>
    ELSE <<F(env["VG_APP_DIR"]), F(".vg-plugins")>>

SearchDirsPluginsFirst(env) == <<get_plugins_dir(env), get_task_dir(env)>>

\* the tuple (task_dir, plugins_dir) that get_task walks
SearchDirs(env) == <<get_task_dir(env), get_plugins_dir(env)>>

\* get_task from its i-th directory on; falls off the loop with None
RECURSIVE get_task_from(_, _, _)
get_task_from(env, name, i) ==
    LET dirs == SearchDirs(env)
    IN  IF i > Len(dirs) THEN NoTask
        ELSE IF IsDir(dirs[i]) /\ get_task_from_dir(dirs[i], name) # NoTask
             THEN get_task_from_dir(dirs[i], name)
             ELSE get_task_from(env, name, i + 1)

get_task(env, name) == get_task_from(env, name, 1)

-----------------------------------------------------------------------------
(* File systems the runs start from *)

App == F("app")

TasksRoot == <<App, F("tasks")>>

PluginsRoot == <<App, F(".vg-plugins")>>

AltRoot == <<F("alt")>>

\* a directory at path p: `order` is the order in which it lists its children,
\* kinds maps each child that exists to "exec", "file" or "dir"
DirAt(p, order, kinds) ==
    (p :> [kind |-> "dir", ls |-> SelectSeq(order, LAMBDA n : n \in DOMAIN kinds)])
    @@ [q \in {Append(p, n) : n \in DOMAIN kinds} |-> [kind |-> kinds[Last(q)], ls |-> <<>>]]

Restrict(f, S) == [x \in S |-> f[x]]

Reverse(s) == [i \in 1..Len(s) |-> s[Len(s) + 1 - i]]

\* the children a root may have under the looked-up name "a"
Children == <<F("a"), FN("a", "sh"), FN("a", "d")>>

ChildSet == {Children[i] : i \in 1..Len(Children)}

Kinds == {"exec", "file", "dir"}

\* what a directory child holds under the name "a"
InnerOf(p, inner) ==
    CASE inner = "empty" -> DirAt(p, <<>>, EmptyDict)
      [] inner = "exec"  -> DirAt(p, <<F("a")>>, F("a") :> "exec")
      [] inner = "dir"   -> DirAt(Append(p, F("a")), <<>>, EmptyDict)
                            @@ DirAt(p, <<F("a")>>, F("a") :> "dir")

RECURSIVE Merge(_, _)
Merge(S, f) == IF S = {} THEN EmptyDict
               ELSE LET x == CHOOSE y \in S : TRUE IN f[x] @@ Merge(S \ {x}, f)

RootAt(p, order, kinds, inner) ==
    LET dirs == {Append(p, n) : n \in {m \in DOMAIN kinds : kinds[m] = "dir"}}
    IN  Merge(dirs, [d \in dirs |-> InnerOf(d, inner)]) @@ DirAt(p, order, kinds)

PluginsAt(p, plug) ==
    CASE plug = "missing" -> EmptyDict
      [] plug = "empty"   -> DirAt(p, <<>>, EmptyDict)
      [] plug = "exec"    -> DirAt(p, <<F("a")>>, F("a") :> "exec")
      [] plug = "ext"     -> DirAt(p, <<FN("a", "sh")>>, FN("a", "sh") :> "exec")
      [] plug = "dir"     -> InnerOf(Append(p, F("a")), "empty")
                             @@ DirAt(p, <<F("a")>>, F("a") :> "dir")

AltDir == DirAt(AltRoot, <<F("a")>>, F("a") :> "exec")

LocateFS ==
    { RootAt(TasksRoot, IF rev THEN Reverse(Children) ELSE Children, Restrict(k, present), inner)
      @@ PluginsAt(PluginsRoot, plug) @@ AltDir
      @@ DirAt(<<App>>, <<F("tasks"), F(".vg-plugins")>>,
               IF plug = "missing" THEN F("tasks") :> "dir"
               ELSE (F("tasks") :> "dir") @@ (F(".vg-plugins") :> "dir")) :
        present \in SUBSET ChildSet, k \in [ChildSet -> Kinds], rev \in BOOLEAN,
        inner \in {"empty", "exec", "dir"},
        plug \in {"missing", "empty", "exec", "ext", "dir"} }

LocateEnvs ==
    { Restrict(e, {"VG_APP_DIR"} \cup S) :
        e \in [ {"VG_APP_DIR", "VG_TASKS_DIR", "VG_PLUGINS_DIR"} -> {"app", "", "alt"} ],
        S \in SUBSET {"VG_TASKS_DIR", "VG_PLUGINS_DIR"} }

-----------------------------------------------------------------------------
(* Locator runs: get_task, one directory of its loop at a time *)

Idle == [kind |-> "idle"]

InitLocate ==
    /\ fs \in LocateFS
    /\ query \in [env : {e \in LocateEnvs : e["VG_APP_DIR"] = "app"}, name : {"a", "b"}]
    /\ lstate = [kind |-> "locate", pc |-> "loop", i |-> 1, consulted |-> <<>>, found |-> <<>>, res |-> NoTask]
    /\ osPath = None /\ parsed = EmptyDict /\ ctxObj = EmptyDict /\ cache = EmptyDict
    /\ content = EmptyDict /\ ambient = EmptyDict /\ korder = NoOrder
    /\ stack = <<>> /\ log = <<>> /\ result = Idle /\ sub = Idle

\* one iteration of `for dir_ in (task_dir, plugins_dir)`
LookInDir ==
    /\ lstate.pc = "loop"
    /\ lstate.i <= Len(SearchDirs(query.env))
    /\ LET dir == SearchDirs(query.env)[lstate.i]
           task == get_task_from_dir(dir, query.name)
       IN  IF IsDir(dir)
           THEN lstate' = [lstate EXCEPT
                    !.consulted = Append(@, dir),
                    !.found = Append(@, task),
                    !.res = task,
                    !.pc = IF task # NoTask THEN "returned" ELSE "loop",
                    !.i = @ + 1]
           ELSE lstate' = [lstate EXCEPT !.i = @ + 1]
    /\ UNCHANGED <<fs, content, ambient, korder, osPath, parsed, ctxObj, cache, stack, log, result, query, sub>>

\* the loop ends without a return: the function returns None
FallOffLoop ==
    /\ lstate.pc = "loop"
    /\ lstate.i > Len(SearchDirs(query.env))
    /\ lstate' = [lstate EXCEPT !.res = NoTask, !.pc = "returned"]
    /\ UNCHANGED <<fs, content, ambient, korder, osPath, parsed, ctxObj, cache, stack, log, result, query, sub>>

NextLocate == LookInDir \/ FallOffLoop

SpecLocate == InitLocate /\ [][NextLocate]_vars

-----------------------------------------------------------------------------
(* Placeholder substitution: the function insert_env_vals *)

\* str.replace(needle, v): every occurrence, left to right, without overlap
RECURSIVE Replace(_, _, _)
Replace(str, needle, v) ==
    IF Len(str) < Len(needle) THEN str
    ELSE IF SubSeq(str, 1, Len(needle)) = needle
         THEN v \o Replace(SubSeq(str, Len(needle) + 1, Len(str)), needle, v)
         ELSE <<Head(str)>> \o Replace(Tail(str), needle, v)

\* f"{i}" for an index below ten
Digits == <<"0", "1", "2", "3", "4", "5", "6", "7", "8", "9">>

\* one iteration of either loop: `if needle in str: str = str.replace(needle, v)`
ReplaceIfIn(str, name, v) ==
    LET needle == <<"$", name>>
    IN  IF Contains(str, needle) THEN Replace(str, needle, v) ELSE str

\* the loop over env.items(), from the i-th item on; items is the dict's items in
\* iteration order, each a pair <<key, value>>
RECURSIVE EnvLoop(_, _, _)
EnvLoop(str, items, i) ==
    IF i > Len(items) THEN str
    ELSE EnvLoop(ReplaceIfIn(str, items[i][1], items[i][2]), items, i + 1)

\* the loop over enumerate(args), from the argument of index i on
RECURSIVE ArgLoop(_, _, _)
ArgLoop(str, args, i) ==
    IF i >= Len(args) THEN str
    ELSE ArgLoop(ReplaceIfIn(str, Digits[i + 1], args[i + 1]), args, i + 1)

insert_env_vals(str, items, args) == ArgLoop(EnvLoop(str, items, 1), args, 0)

-----------------------------------------------------------------------------
(* The orchestrator task_cmd *)

\* the deepest nesting of task_cmd activations the runs explore
MaxDepth == 3

\* the longest `requires` list of the task the run starts with
MaxRequires == 2

\* exit codes a child process may end with
ExitCodes == {0, 1, 3}

\* load_meta's result for a file without a metadata block: {}
NoMeta == [requires |-> <<>>, run_required |-> None, overrides |-> None,
           defaults |-> None, image |-> None]

Dashes == <<"-", "-", "-">>

FirstSepTwoDashes(lines) ==
    LET idx == {i \in 1..Len(lines) : Contains(lines[i], <<"-", "-">>)}
    IN  IF idx = {} THEN None ELSE Some(CHOOSE i \in idx : \A j \in idx : i <= j)

\* lines 105-110: the first line that contains "---", None when no line does
FirstSep(lines) ==
    LET idx == {i \in 1..Len(lines) : Contains(lines[i], Dashes)}
    IN  IF idx = {} THEN None ELSE Some(CHOOSE i \in idx : \A j \in idx : i <= j)

\* line 115, `_, meta, script = content.split(sep, 2)`: the separator is a whole
\* line and no earlier line contains it, so its first occurrence is that line; the
\* split yields three parts when a later line contains it again, two otherwise
SplitsInThree(lines, i) == \E j \in (i + 1)..Len(lines) : Contains(lines[j], lines[i])

\* load_meta up to the call of yaml.load: no block, a block, or the ValueError of
\* unpacking two parts into three names
ReadMeta(lines) ==
    IF FirstSep(lines) = None THEN "nometa"
    ELSE IF SplitsInThree(lines, The(FirstSep(lines))) THEN "block"
    ELSE "ValueError"

\* load_meta under lru_cache: the cached dict object when there is one, else what
\* the file yields, which is cached; parsed[path] is what yaml.load makes of the block
load_meta(c, path) ==
    IF path \in DOMAIN c THEN c[path]
    ELSE IF ReadMeta(content[path]) = "nometa" THEN NoMeta
    ELSE parsed[path]

\* the call raises, and nothing is cached
LoadRaises(c, path) == path \notin DOMAIN c /\ ReadMeta(content[path]) = "ValueError"

CacheAfterLoad(c, path) == IF path \in DOMAIN c THEN c ELSE (path :> load_meta(c, path)) @@ c

\* update_env(meta, env), env being ctx.obj. The outcome names the three things
\* the call leaves behind: ctx.obj (updated in place by the overrides), the
\* meta's defaults dict (updated in place by the environment), and which of the
\* two objects is returned.
update_envDefaultsWin(meta, env) ==
    LET env1 == IF meta.overrides # None THEN Update(env, The(meta.overrides)) ELSE env
    IN  IF meta.defaults # None
        THEN [ctx |-> env1, defaults |-> Some(Update(env1, The(meta.defaults))), ref |-> "defaults"]
        ELSE [ctx |-> env1, defaults |-> None, ref |-> "ctx"]

update_env(meta, env) ==
    LET env1 == IF meta.overrides # None THEN Update(env, The(meta.overrides)) ELSE env
    IN  IF meta.defaults # None
        THEN [ctx |-> env1, defaults |-> Some(Update(The(meta.defaults), env1)), ref |-> "defaults"]
        ELSE [ctx |-> env1, defaults |-> None, ref |-> "ctx"]

get_flag(env, yml, default) ==
    IF env = None
    THEN IF yml = None THEN default ELSE The(yml)
    ELSE The(env)

\* lines 19-23: the env argument is bool(...), which is never None
RunRequired(env, meta) ==
    get_flag(Some(Truthy(Get(env, "VG_RUN_REQUIRED"))), meta.run_required, FALSE)

RequiresReversed(meta) == Reverse(meta.requires)

RequiresSkipLast(meta) == SubSeq(meta.requires, 1, Len(meta.requires) - 1)

\* meta.get("requires", []), in the order the loop of line 26 walks it
Requires(meta) == meta.requires

ExitOutcomeGeneric(c) == IF c = 0 THEN [kind |-> "return"] ELSE [kind |-> "exit", code |-> 1]

ExitOutcomeSwallowed(c) == [kind |-> "return"]

\* lines 74-87: a non-zero exit raises sh.ErrorReturnCode, answered by
\* sys.exit(erc.exit_code); a zero exit lets task_cmd return
ExitOutcome(c) == IF c = 0 THEN [kind |-> "return"] ELSE [kind |-> "exit", code |-> c]

Top == stack[Len(stack)]

\* the dict a frame's local variable env refers to
EnvOf(f) == IF f.env = "ctx" THEN ctxObj ELSE The(cache[f.path].defaults)

Running == result.kind = "running"

SetTop(f) == [stack EXCEPT ![Len(stack)] = f]

\* an activation of task_cmd; name is the name the task was asked for by, start the
\* length of the log when the activation began
Frame(name, path, args, start) ==
    [name |-> name, path |-> path, args |-> args, env |-> "ctx", rr |-> FALSE, i |-> 1,
     pc |-> "start", start |-> start]

\* update_env again, for the iteration order of the keys of the two dicts it
\* updates: ctx.obj, and the defaults dict of the meta of the task at path
update_env_keys(meta, path, ko) ==
    LET ctx1 == IF meta.overrides # None
                THEN KeysAfterUpdate(ko.ctx, DeclOrder(The(meta.overrides)))
                ELSE ko.ctx
        d0 == IF path \in DOMAIN ko.defaults THEN ko.defaults[path]
              ELSE DeclOrder(The(meta.defaults))
    IN  IF meta.defaults # None
        THEN [ctx |-> ctx1, defaults |-> (path :> KeysAfterUpdate(d0, ctx1)) @@ ko.defaults]
        ELSE [ctx |-> ctx1, defaults |-> ko.defaults]

\* lines 15-24: load the metadata, compose the environment, resolve the flag
Enter ==
    /\ Running /\ Top.pc = "start"
    /\ IF LoadRaises(cache, Top.path)
       THEN /\ result' = [kind |-> "error", exc |-> "ValueError"]
            /\ UNCHANGED <<ctxObj, cache, korder, stack>>
       ELSE LET meta == load_meta(cache, Top.path)
                u == update_env(meta, ctxObj)
                env == IF u.ref = "ctx" THEN u.ctx ELSE The(u.defaults)
                rr == RunRequired(env, meta)
            IN  /\ ctxObj' = u.ctx
                /\ cache' = [CacheAfterLoad(cache, Top.path) EXCEPT
                                 ![Top.path].defaults = u.defaults]
                /\ korder' = update_env_keys(meta, Top.path, korder)
                /\ stack' = SetTop([Top EXCEPT !.env = u.ref, !.rr = rr,
                                               !.pc = IF rr THEN "loop" ELSE "invoke"])
                /\ UNCHANGED result
    /\ UNCHANGED <<fs, content, ambient, osPath, parsed, log, query, lstate, sub>>

\* lines 26-29, one iteration: locate the prerequisite and invoke it
Require ==
    /\ Running /\ Top.pc = "loop"
    /\ Top.i <= Len(Requires(cache[Top.path]))
    /\ LET t == get_task(EnvOf(Top), Requires(cache[Top.path])[Top.i])
       IN  CASE t.kind = "None" ->
                  \* None.invoke: AttributeError, uncaught
                  /\ result' = [kind |-> "error", exc |-> "AttributeError"]
                  /\ UNCHANGED <<stack, cache>>
             [] t.kind = "Group" ->
                  \* Group.invoke with no subcommand: click fails with a usage error
                  /\ result' = [kind |-> "error", exc |-> "UsageError"]
                  /\ UNCHANGED <<stack, cache>>
             [] t.kind = "Leaf" /\ LoadRaises(cache, t.path) ->
                  \* as_command calls load_meta, which raises
                  /\ result' = [kind |-> "error", exc |-> "ValueError"]
                  /\ UNCHANGED <<stack, cache>>
             [] t.kind = "Leaf" /\ ~LoadRaises(cache, t.path) ->
                  /\ Len(stack) < MaxDepth
                  /\ stack' = Append(SetTop([Top EXCEPT !.pc = "call"]),
                                     Frame(Requires(cache[Top.path])[Top.i], t.path,
                                           Top.args, Len(log)))
                  /\ cache' = CacheAfterLoad(cache, t.path)
                  /\ UNCHANGED result
    /\ UNCHANGED <<fs, content, ambient, korder, osPath, parsed, ctxObj, log, query, lstate, sub>>

\* the loop of line 26 is exhausted
EndLoop ==
    /\ Running /\ Top.pc = "loop"
    /\ Top.i > Len(Requires(cache[Top.path]))
    /\ stack' = SetTop([Top EXCEPT !.pc = "invoke"])
    /\ UNCHANGED <<fs, content, ambient, korder, osPath, parsed, ctxObj, cache, log, result, query, lstate, sub>>

\* a string no scan can split: one symbol
Str(s) == <<s>>

\* the image of a task: a bare string (the tag), or a mapping, held as its items
\* <<key, value>> in iteration order
StrImage(tag) == [kind |-> "str", tag |-> tag, items |-> <<>>]

DictImage(items) == [kind |-> "dict", tag |-> <<>>, items |-> items]

\* the values of a mapping: a string, a boolean, a list of strings
VStr(s) == [t |-> "str", s |-> s, b |-> FALSE, l |-> <<>>]

VBool(b) == [t |-> "bool", s |-> <<>>, b |-> b, l |-> <<>>]

VList(l) == [t |-> "list", s |-> <<>>, b |-> FALSE, l |-> l]

\* bool(v)
PyBool(v) ==
    CASE v.t = "bool" -> v.b
      [] v.t = "str" -> v.s # <<>>
      [] v.t = "list" -> v.l # <<>>

\* line 31, `if meta.get("image")`: None, "" and {} are false
ImageTruthy(o) ==
    /\ o # None
    /\ IF The(o).kind = "str" THEN The(o).tag # <<>> ELSE The(o).items # <<>>

HasKey(items, k) == \E i \in 1..Len(items) : items[i][1] = k

ItemOf(items, k) == items[CHOOSE i \in 1..Len(items) : items[i][1] = k][2]

\* the mapping after pop(k)
Pop(items, k) == SelectSeq(items, LAMBDA it : it[1] # k)

\* line 47: bool(image.get("tty", False))
TtyIn(items) == IF HasKey(items, "tty") THEN PyBool(ItemOf(items, "tty")) ELSE FALSE

TagOfDefault(items) == IF HasKey(items, "tag") THEN Some(ItemOf(items, "tag").s) ELSE Some(<<>>)

\* line 48, image.pop("tag"): the value, None standing for the KeyError of a
\* mapping without the key
TagOf(items) == IF HasKey(items, "tag") THEN Some(ItemOf(items, "tag").s) ELSE None

\* env.items() in iteration order, as insert_env_vals walks them: a key is one
\* symbol, and so is a value
Items(env, keys) == [i \in 1..Len(keys) |-> <<keys[i], Str(env[keys[i]])>>]

\* list(args): each argument of the user is one symbol
UserArgs(args) == [i \in 1..Len(args) |-> Str(args[i])]

ListArgs(k, l, items, args) ==
    [i \in 1..(2 * Len(l)) |->
        IF i % 2 = 1 THEN Str("--" \o k) ELSE insert_env_vals(l[i \div 2], items, args)]

OptionArgsBoolPair(k, v, items, args) ==
    CASE v.t = "list" -> ListArgs(k, v.l, items, args)
      [] v.t = "bool" -> <<Str("--" \o k), Str(IF v.b THEN "True" ELSE "False")>>
      [] v.t = "str" -> <<Str("--" \o k), insert_env_vals(v.s, items, args)>>

\* lines 51-61, one item of the image mapping
OptionArgs(k, v, items, args) ==
    CASE v.t = "list" -> ListArgs(k, v.l, items, args)
      [] v.t = "bool" -> IF v.b THEN <<Str("--" \o k)>> ELSE <<>>
      [] v.t = "str" -> <<Str("--" \o k), insert_env_vals(v.s, items, args)>>

\* lines 50-61: the loop over image.items(), from the i-th item on
RECURSIVE ImageOptions(_, _, _, _)
ImageOptions(image, items, args, i) ==
    IF i > Len(image) THEN <<>>
    ELSE OptionArgs(image[i][1], image[i][2], items, args)
         \o ImageOptions(image, items, args, i + 1)

BareTagSubstituted(tag, items, args) == insert_env_vals(tag, items, args)

\* lines 62-64, a bare-string image: `tag = image`
BareTag(tag, items, args) == tag

\* str(path)
RECURSIVE PathStr(_)
PathStr(path) ==
    LET name == IF Last(path).ext = "" THEN Last(path).stem
                ELSE Last(path).stem \o "." \o Last(path).ext
    IN  IF Len(path) = 1 THEN name
        ELSE PathStr(SubSeq(path, 1, Len(path) - 1)) \o "/" \o name

\* lines 65-66: an --env K pair per key of env, in iteration order
EnvArgs(keys) ==
    [i \in 1..(2 * Len(keys)) |-> IF i % 2 = 1 THEN Str("--env") ELSE Str(keys[i \div 2])]

\* lines 36-44: the arguments every container invocation starts with
FixedArgs(path) ==
    <<Str("run"), Str("--volume"), Str(PathStr(path) \o ":/vg-task"),
      Str("--label"), Str("vantage"), Str("--label"), Str("vantage-task")>>

DockerArgsTagFirst(path, opts, keys, tag, args) ==
    FixedArgs(path) \o opts \o <<tag, Str("/vg-task")>> \o EnvArgs(keys) \o args

\* lines 36-68: the arguments of the container invocation
DockerArgs(path, opts, keys, tag, args) ==
    FixedArgs(path) \o opts \o EnvArgs(keys) \o <<tag, Str("/vg-task")>> \o args

\* the arguments of a direct invocation: the user's arguments alone
DirectArgs(args) == args

\* os.environ.get("PATH", "")
AmbientPath == IF osPath = None THEN "" ELSE The(osPath)

DirectEnvSetDefault(env) == IF "PATH" \in DOMAIN env THEN env ELSE SetItem(env, "PATH", AmbientPath)

\* line 70: env["PATH"] = os.environ.get("PATH", "")
DirectEnv(env) == SetItem(env, "PATH", AmbientPath)

\* the keys of the dict a frame's local variable env refers to, in iteration order
KeysOf(f) == IF f.env = "ctx" THEN korder.ctx ELSE korder.defaults[f.path]

\* lines 74-81: the child process is started
Spawn(cmd, exe, args, env, tty) ==
    /\ log' = Append(log, [ev |-> "spawn", depth |-> Len(stack), name |-> Top.name,
                           path |-> Top.path, cmd |-> cmd, exe |-> exe, args |-> args,
                           env |-> env, tty |-> tty, cwd |-> env["VG_APP_DIR"], code |-> 0])
    /\ stack' = SetTop([Top EXCEPT !.pc = "running"])

\* lines 69-81: the task's own file is run; PATH is written into the dict env refers to
InvokeDirect ==
    LET env1 == DirectEnv(EnvOf(Top))
        keys1 == KeysAfterUpdate(KeysOf(Top), <<"PATH">>)
    IN  /\ IF Top.env = "ctx"
           THEN /\ ctxObj' = env1
                /\ korder' = [korder EXCEPT !.ctx = keys1]
                /\ UNCHANGED cache
           ELSE /\ cache' = [cache EXCEPT ![Top.path].defaults = Some(env1)]
                /\ korder' = [korder EXCEPT !.defaults[Top.path] = keys1]
                /\ UNCHANGED ctxObj
        /\ Spawn("task", PathStr(Top.path), DirectArgs(UserArgs(Top.args)), env1, FALSE)
        /\ UNCHANGED result

\* lines 62-68 and 74-81: a bare-string image
InvokeBare ==
    LET env == EnvOf(Top)
        args == UserArgs(Top.args)
        tag == BareTag(The(cache[Top.path].image).tag, Items(env, KeysOf(Top)), args)
    IN  /\ Spawn("docker", "docker",
                 DockerArgs(Top.path, <<Str("--rm")>>, KeysOf(Top), tag, args), env, FALSE)
        /\ UNCHANGED <<ctxObj, cache, korder, result>>

\* lines 46-61, 65-68 and 74-81: an image mapping. pop("tag") raises KeyError on a
\* mapping without the key, and nothing catches it; otherwise it takes the key
\* out of the mapping load_meta has cached
InvokeMapping ==
    LET image == The(cache[Top.path].image).items
        env == EnvOf(Top)
        items == Items(env, KeysOf(Top))
        args == UserArgs(Top.args)
    IN  IF TagOf(image) = None
        THEN /\ result' = [kind |-> "error", exc |-> "KeyError"]
             /\ UNCHANGED <<ctxObj, cache, korder, log, stack>>
        ELSE /\ cache' = [cache EXCEPT ![Top.path].image = Some(DictImage(Pop(image, "tag")))]
             /\ Spawn("docker", "docker",
                      DockerArgs(Top.path, ImageOptions(Pop(image, "tag"), items, args, 1),
                                 KeysOf(Top), insert_env_vals(The(TagOf(image)), items, args),
                                 args),
                      env, TtyIn(image))
             /\ UNCHANGED <<ctxObj, korder, result>>

\* lines 31-81 up to the spawn of the child process
Invoke ==
    /\ Running /\ Top.pc = "invoke"
    /\ IF ~ImageTruthy(cache[Top.path].image) THEN InvokeDirect
       ELSE IF The(cache[Top.path].image).kind = "str" THEN InvokeBare
       ELSE InvokeMapping
    /\ UNCHANGED <<fs, content, ambient, osPath, parsed, query, lstate, sub>>

\* the child process ends with exit code c (lines 74-87)
Exit ==
    /\ Running /\ Top.pc = "running"
    /\ \E c \in ExitCodes :
        LET out == ExitOutcome(c)
        IN  /\ log' = Append(log, [Last(log) EXCEPT !.ev = "exit", !.code = c])
            /\ IF out.kind = "return"
               THEN stack' = SetTop([Top EXCEPT !.pc = "done"]) /\ UNCHANGED result
               ELSE result' = out /\ UNCHANGED stack
    /\ UNCHANGED <<fs, content, ambient, korder, osPath, parsed, ctxObj, cache, query, lstate, sub>>

\* line 29-30: t.invoke(ctx) returns to the requiring task
Return ==
    /\ Running /\ Top.pc = "done" /\ Len(stack) > 1
    /\ LET caller == stack[Len(stack) - 1]
       IN  stack' = [SubSeq(stack, 1, Len(stack) - 1) EXCEPT
                        ![Len(stack) - 1] = [caller EXCEPT !.pc = "loop", !.i = @ + 1]]
    /\ UNCHANGED <<fs, content, ambient, korder, osPath, parsed, ctxObj, cache, log, result, query, lstate, sub>>

\* the task the run was started for returns: the run ends with exit code 0
Finish ==
    /\ Running /\ Top.pc = "done" /\ Len(stack) = 1
    /\ result' = [kind |-> "exit", code |-> 0]
    /\ UNCHANGED <<fs, content, ambient, korder, osPath, parsed, ctxObj, cache, stack, log, query, lstate, sub>>

-----------------------------------------------------------------------------
(* The runs *)

PA == Append(TasksRoot, F("a"))

PB == Append(TasksRoot, FN("b", "sh"))

PluginB == Append(PluginsRoot, F("b"))

PC == Append(PluginsRoot, F("c"))

\* tasks/ holds the tasks a and b.sh and the group g/; the plugins hold another b
\* and the task c
MainFS ==
    DirAt(Append(TasksRoot, F("g")), <<>>, EmptyDict)
    @@ DirAt(TasksRoot, <<F("a"), FN("b", "sh"), F("g")>>,
             (F("a") :> "exec") @@ (FN("b", "sh") :> "exec") @@ (F("g") :> "dir"))
    @@ DirAt(PluginsRoot, <<F("b"), F("c")>>, (F("b") :> "exec") @@ (F("c") :> "exec"))
    @@ DirAt(<<App>>, <<F("tasks"), F(".vg-plugins")>>,
             (F("tasks") :> "dir") @@ (F(".vg-plugins") :> "dir"))

SeqsUpTo(S, n) == UNION {[1..k -> S] : k \in 0..n}

\* the names a requires list may hold: three tasks, a group, a name nothing matches
ReqNames == {"a", "b", "c", "g", "m"}

BaseEnv == [VG_APP_DIR |-> "app", VG_VERBOSE |-> "", PATH |-> "/bin", X |-> "e"]

DefaultsXY == [X |-> "d", Y |-> "d"]

\* a task file with a metadata block, commented out with #, and one without
BlockText == << <<"#", "-", "-", "-">>, <<"#", "k">>, <<"#", "-", "-", "-">>, <<"e">> >>

PlainText == << <<"e">> >>

\* a run of the task a: the ambient environment, what the blocks of a and of b.sh
\* hold, the PATH of the process, the text of a
InitRunText(envs, metasA, metasB, paths, textsA) ==
    /\ fs = MainFS
    /\ osPath \in paths
    /\ ctxObj \in envs
    /\ ambient = ctxObj
    /\ korder = [ctx |-> DeclOrder(ctxObj), defaults |-> <<>>]
    /\ \E ta \in textsA :
          content = (PA :> ta) @@ (PB :> BlockText) @@ (PluginB :> PlainText)
                    @@ (PC :> PlainText)
    /\ \E ma \in metasA, mb \in metasB :
          parsed = (PA :> ma) @@ (PB :> mb) @@ (PluginB :> NoMeta) @@ (PC :> NoMeta)
    \* the command of a is built, and its file loaded, before task_cmd runs
    /\ cache = IF LoadRaises(EmptyDict, PA) THEN EmptyDict ELSE CacheAfterLoad(EmptyDict, PA)
    /\ log = <<>>
    /\ stack = <<Frame("a", PA, <<"x">>, 0)>>
    /\ result = [kind |-> "running"]
    /\ query = Idle /\ lstate = Idle /\ sub = Idle

InitRun(envs, metasA, metasB, paths) == InitRunText(envs, metasA, metasB, paths, {BlockText})

\* runs that vary the prerequisites
Init ==
    InitRun({BaseEnv, SetItem(BaseEnv, "VG_RUN_REQUIRED", "1")},
            [requires : SeqsUpTo(ReqNames, MaxRequires), run_required : {None},
             overrides : {None}, defaults : {None, Some(DefaultsXY)},
             image : {None, Some(StrImage(Str("img")))}],
            [requires : {<<>>, <<"a">>, <<"c">>, <<"m">>}, run_required : {None},
             overrides : {None, Some([X |-> "o"])}, defaults : {None, Some(DefaultsXY)},
             image : {None}],
            {Some("/bin")})

Next == Enter \/ Require \/ EndLoop \/ Invoke \/ Exit \/ Return \/ Finish

Spec == Init /\ [][Next]_vars

\* runs that vary the environment and the metadata of the task
InitEnv ==
    InitRun({ Restrict(e, {"VG_APP_DIR", "VG_VERBOSE", "PATH"} \cup S) :
                e \in { SetItem(BaseEnv, "VG_RUN_REQUIRED", v) : v \in {"", "1"} },
                S \in SUBSET {"VG_RUN_REQUIRED", "X"} },
            [requires : {<<>>, <<"b">>, <<"b", "b">>, <<"g">>, <<"m">>},
             run_required : {None, Some(TRUE), Some(FALSE)},
             overrides : {None, Some(EmptyDict), Some([X |-> "o"]),
                          Some([X |-> "o", VG_RUN_REQUIRED |-> "1"]),
                          Some([VG_RUN_REQUIRED |-> ""])},
             defaults : {None, Some(EmptyDict), Some(DefaultsXY),
                         Some([Y |-> "d", VG_RUN_REQUIRED |-> "1"])},
             image : {None}],
            [requires : {<<>>}, run_required : {None},
             overrides : {None, Some([X |-> "p"])}, defaults : {None, Some(DefaultsXY)},
             image : {None}],
            {Some("/usr")})

SpecEnv == InitEnv /\ [][Next]_vars

\* the most items an image mapping of the runs holds
MaxItems == 2

\* the items the image mappings of the runs are made of
ImageItems ==
    { <<"tag", VStr(<<"img:", "$", "X">>)>>,
      <<"tty", VBool(TRUE)>>, <<"tty", VBool(FALSE)>>,
      <<"rm", VBool(TRUE)>>, <<"rm", VBool(FALSE)>>,
      <<"network", VList(<<>>)>>,
      <<"network", VList(<< <<"n", "$", "0">> >>)>>,
      <<"network", VList(<< <<"n">>, <<"$", "Y">> >>)>>,
      <<"name", VStr(<<"$", "X">>)>> }

\* the mappings: no key twice
ImageMappings ==
    { m \in SeqsUpTo(ImageItems, MaxItems) :
        \A i, j \in 1..Len(m) : m[i][1] = m[j][1] => i = j }

Images ==
    {None, Some(StrImage(<<>>)), Some(StrImage(<<"img:", "$", "X">>))}
    \cup { Some(DictImage(m)) : m \in ImageMappings }

TagOnly == DictImage(<< <<"tag", VStr(Str("img"))>> >>)

TagAndRm == DictImage(<< <<"tag", VStr(Str("img"))>>, <<"rm", VBool(TRUE)>> >>)

\* runs that vary the image of the task, and run a task with an image twice
InitImage ==
    InitRun({BaseEnv, SetItem(BaseEnv, "VG_RUN_REQUIRED", "1")},
            [requires : {<<>>, <<"b", "b">>}, run_required : {None},
             overrides : {None}, defaults : {None, Some([Y |-> "d"])},
             image : Images],
            [requires : {<<>>}, run_required : {None},
             overrides : {None}, defaults : {None},
             image : {None, Some(TagOnly), Some(TagAndRm)}],
            {Some("/usr")})

SpecImage == InitImage /\ [][Next]_vars

\* runs of tasks without an image that vary PATH: in the ambient environment, in
\* the overrides and the defaults, in the environment of the process
InitDirect ==
    InitRun({ Restrict(e, {"VG_APP_DIR", "VG_VERBOSE", "X"} \cup S) :
                e \in {SetItem(BaseEnv, "VG_RUN_REQUIRED", "1")},
                S \in SUBSET {"VG_RUN_REQUIRED", "PATH"} },
            [requires : {<<>>, <<"b">>, <<"c">>}, run_required : {None},
             overrides : {None, Some([PATH |-> "/o"]), Some([X |-> "o"])},
             defaults : {None, Some([PATH |-> "/d"]), Some([PATH |-> "/d", Y |-> "d"])},
             image : {None}],
            [requires : {<<>>}, run_required : {None},
             overrides : {None, Some([PATH |-> "/p"])}, defaults : {None, Some([PATH |-> "/d"])},
             image : {None}],
            {None, Some("/usr")})

SpecDirect == InitDirect /\ [][Next]_vars

\* the most lines a task file of the runs holds
MaxLines == 3

\* the lines the task files of the runs are made of
Lines ==
    { <<>>, <<"k">>, <<"-", "-">>, <<"-", "-", "-">>, <<"#", "-", "-", "-">>, <<"#", "k">>,
      <<"-", "k", "-">>, <<"-", "-", "-", "-">> }

RichMeta ==
    [requires |-> <<"c">>, run_required |-> None, overrides |-> Some([X |-> "o"]),
     defaults |-> Some(DefaultsXY), image |-> Some(StrImage(Str("img")))]

\* runs that vary the text of the task file
InitMeta ==
    InitRunText({SetItem(BaseEnv, "VG_RUN_REQUIRED", "1")}, {RichMeta}, {NoMeta},
                {Some("/usr")}, SeqsUpTo(Lines, MaxLines))

SpecMeta == InitMeta /\ [][Next]_vars

-----------------------------------------------------------------------------
(* Placeholder substitution: the runs of insert_env_vals *)

\* the longest string the substitution runs start from
MaxStr == 4

Alphabet == {"$", "0", "F", "x"}

SubstEnvs ==
    { <<>>,
      << <<"F", <<"$", "0">>>> >>,
      << <<"F", <<"x">>>> >>,
      << <<"F", <<"$", "G">>>>, <<"G", <<"x", "x">>>> >>,
      << <<"G", <<"x", "x">>>>, <<"F", <<"$", "G">>>> >> }

SubstArgs == { <<>>, << <<"x">> >>, << <<"$", "F">> >>, << <<"x">>, <<"0">> >> }

InitSubst ==
    /\ sub \in [kind : {"subst"}, pc : {"call"}, str : SeqsUpTo(Alphabet, MaxStr),
                items : SubstEnvs, args : SubstArgs, out : {<<>>}]
    /\ fs = EmptyDict /\ osPath = None /\ parsed = EmptyDict /\ ctxObj = EmptyDict
    /\ content = EmptyDict /\ ambient = EmptyDict /\ korder = NoOrder
    /\ cache = EmptyDict /\ stack = <<>> /\ log = <<>> /\ result = Idle
    /\ query = Idle /\ lstate = Idle

Substitute ==
    /\ sub.pc = "call"
    /\ sub' = [sub EXCEPT !.pc = "done", !.out = insert_env_vals(sub.str, sub.items, sub.args)]
    /\ UNCHANGED <<fs, content, ambient, korder, osPath, parsed, ctxObj, cache, stack, log, result, query, lstate>>

NextSubst == Substitute

SpecSubst == InitSubst /\ [][NextSubst]_vars

\* the substitution the claim describes: one scan of the original string, each
\* token $K or $i replaced by its value, the values themselves never scanned
ValueOf(name, items, args) ==
    LET ks == {i \in 1..Len(items) : items[i][1] = name}
        ds == {i \in 1..Len(args) : Digits[i] = name}
    IN  IF ks # {} THEN Some(items[CHOOSE i \in ks : TRUE][2])
        ELSE IF ds # {} THEN Some(args[CHOOSE i \in ds : TRUE])
        ELSE None

RECURSIVE SinglePass(_, _, _)
SinglePass(str, items, args) ==
    IF Len(str) = 0 THEN <<>>
    ELSE IF Len(str) >= 2 /\ str[1] = "$" /\ ValueOf(str[2], items, args) # None
         THEN The(ValueOf(str[2], items, args)) \o SinglePass(SubSeq(str, 3, Len(str)), items, args)
         ELSE <<Head(str)>> \o SinglePass(Tail(str), items, args)

\* C10 as claimed: the result is the original string with each $K and $i token
\* replaced by its value, and no replacement text is scanned again.
C10_LiteralNonRecursive ==
    sub.pc = "done" => sub.out = SinglePass(sub.str, sub.items, sub.args)

-----------------------------------------------------------------------------
(* Claims about the orchestrator, checked under Spec *)

IsSpawn(e) == e.ev = "spawn"

\* the place in the log of the spawn of the process of the k-th activation
OwnSpawn(k) ==
    CHOOSE j \in (stack[k].start + 1)..Len(log) : IsSpawn(log[j]) /\ log[j].depth = k

\* C1: when run-required resolved to true, by the time a task's own process is
\* spawned every name of its requires list has been executed, in declared order,
\* each one's process having exited before anything else was spawned; no process
\* is ever spawned while another is running.
C1_PrerequisitesFirst ==
    /\ \A j \in 1..(Len(log) - 1) :
          IsSpawn(log[j]) => /\ log[j + 1].ev = "exit"
                             /\ log[j + 1].depth = log[j].depth
                             /\ log[j + 1].path = log[j].path
    /\ \A k \in 1..Len(stack) :
          (stack[k].rr /\ stack[k].pc \in {"running", "done"}) =>
            LET before == SubSeq(log, stack[k].start + 1, OwnSpawn(k) - 1)
                kids == SelectSeq(before, LAMBDA e : IsSpawn(e) /\ e.depth = k + 1)
                req == parsed[stack[k].path].requires
            IN  /\ Len(kids) = Len(req)
                /\ \A i \in 1..Len(req) : kids[i].name = req[i]
                /\ \A j \in 1..Len(before) :
                      IsSpawn(before[j]) => /\ j < Len(before)
                                            /\ before[j + 1].ev = "exit"
                                            /\ before[j + 1].code = 0

\* C1 witness: the first task's process is running after two different
\* prerequisites ran, in the order declared
C1_Witness ==
    /\ Len(stack) = 1 /\ stack[1].rr /\ stack[1].pc = "running"
    /\ parsed[PA].requires = <<"c", "b">>
    /\ Len(log) = 5
    /\ log[1].name = "c" /\ log[3].name = "b" /\ log[5].name = "a"

\* C2: a process that exits with a non-zero code c ends the run with exit code
\* c, and the run never ends with a non-zero code that no process exited with;
\* a process that exits with zero lets its task return normally.
C2_ExitCodePropagates ==
    /\ \A j \in 1..Len(log) :
          (log[j].ev = "exit" /\ log[j].code # 0) =>
              /\ j = Len(log)
              /\ result = [kind |-> "exit", code |-> log[j].code]
    /\ (result.kind = "exit" /\ result.code # 0) =>
          /\ Len(log) > 0
          /\ Last(log).ev = "exit" /\ Last(log).code = result.code
    /\ (/\ Len(log) > 0 /\ Last(log).ev = "exit" /\ Last(log).code = 0
        /\ Len(stack) = Last(log).depth /\ Top.start < Len(log))
          => Top.pc = "done" /\ result.kind \in {"running", "exit"}
    /\ (result.kind = "exit" /\ result.code = 0) =>
          /\ Last(log).ev = "exit" /\ Last(log).code = 0 /\ Last(log).depth = 1

\* C2 witness: a run has ended with the code 3 its process exited with
C2_Witness ==
    /\ result = [kind |-> "exit", code |-> 3]
    /\ Last(log).depth = 1

\* C3: when a prerequisite exits with a non-zero code c, nothing is spawned
\* afterwards (no later prerequisite, not the requiring task's process) and the
\* run ends with exit code c.
C3_PrerequisiteFailureEndsRun ==
    \A j \in 1..Len(log) :
        (log[j].ev = "exit" /\ log[j].code # 0 /\ log[j].depth > 1) =>
            /\ j = Len(log)
            /\ result = [kind |-> "exit", code |-> log[j].code]
            /\ \A k \in 1..(log[j].depth - 1) :
                  /\ stack[k].pc = "call"
                  /\ \A i \in (stack[k].start + 1)..Len(log) :
                        ~(IsSpawn(log[i]) /\ log[i].depth = k)

\* C3 witness: the first of two prerequisites has failed with code 3
C3_Witness ==
    /\ result = [kind |-> "exit", code |-> 3]
    /\ Len(parsed[PA].requires) = 2
    /\ Len(stack) = 2 /\ stack[1].i = 1
    /\ Last(log).depth = 2

-----------------------------------------------------------------------------
(* Claims about the environment and the flag, checked under SpecEnv *)

OrEmpty(o) == IF o = None THEN EmptyDict ELSE The(o)

\* C4 as claimed: run-required is the VG_RUN_REQUIRED value when the environment
\* sets it, else the metadata's run-required when present, else false.
C4_ThreeWayPrecedence ==
    \A k \in 1..Len(stack) :
        stack[k].pc # "start" =>
            LET env == EnvOf(stack[k])
                meta == parsed[stack[k].path]
            IN  stack[k].rr =
                    IF "VG_RUN_REQUIRED" \in DOMAIN env THEN Truthy(Get(env, "VG_RUN_REQUIRED"))
                    ELSE IF meta.run_required # None THEN The(meta.run_required)
                    ELSE FALSE

\* C5: the mapping update_env returns has the keys of E, O and D together, and
\* for each key the value of O if O has it, else that of E if E has it, else
\* that of D; E is the environment, O the overrides and D the defaults passed in.
C5_ComposedEnvironment ==
    [][Enter =>
        LET meta == load_meta(cache, Top.path)
            E == ctxObj
            O == OrEmpty(meta.overrides)
            D == OrEmpty(meta.defaults)
            R == EnvOf(Top)'
        IN  /\ DOMAIN R = (DOMAIN E) \cup (DOMAIN O) \cup (DOMAIN D)
            /\ \A k \in DOMAIN R :
                  R[k] = IF k \in DOMAIN O THEN O[k]
                         ELSE IF k \in DOMAIN E THEN E[k]
                         ELSE D[k]]_vars

\* C5 witness: an environment has been composed where the overrides and the
\* defaults both had the key X, the defaults alone Y, the environment VG_APP_DIR
C5_Witness ==
    /\ Len(stack) = 1 /\ stack[1].pc # "start"
    /\ parsed[PA].overrides = Some([X |-> "o"])
    /\ parsed[PA].defaults = Some(DefaultsXY)
    /\ EnvOf(stack[1])["X"] = "o" /\ EnvOf(stack[1])["Y"] = "d"
    /\ EnvOf(stack[1])["VG_APP_DIR"] = "app"

\* C6 as claimed: composing the environment of a task leaves ctx.obj with exactly
\* the keys and values it had before.
C6_CallerEnvironmentUntouched == [][Enter => ctxObj' = ctxObj]_vars

-----------------------------------------------------------------------------
(* Claims about the locator, checked under SpecLocate *)

\* what looking in one root yields: nothing when the root is no directory
Yields(dir, name) == IF IsDir(dir) THEN get_task_from_dir(dir, name) ELSE NoTask

\* C7: get_task looks in the tasks directory first and in the plugins directory
\* only when the tasks directory yields no match; the first match is the result.
C7_TasksDirFirst ==
    lstate.pc = "returned" =>
        LET tdir == get_task_dir(query.env)
            pdir == get_plugins_dir(query.env)
            t == Yields(tdir, query.name)
        IN  /\ t # NoTask => lstate.res = t /\ lstate.consulted = <<tdir>>
            /\ t = NoTask => lstate.res = Yields(pdir, query.name)
            /\ (is_executable(Append(tdir, F(query.name))) /\ IsDir(tdir))
                    => lstate.res = as_command(Append(tdir, F(query.name)))

\* C7 witness: a name that both roots match, differently, has been located
C7_Witness ==
    /\ lstate.pc = "returned"
    /\ Yields(get_task_dir(query.env), query.name) # NoTask
    /\ Yields(get_plugins_dir(query.env), query.name) # NoTask
    /\ Yields(get_plugins_dir(query.env), query.name)
            # Yields(get_task_dir(query.env), query.name)
    /\ lstate.res = Yields(get_task_dir(query.env), query.name)

\* C8 as claimed: a root with no executable `name`, no executable `name.*`, and a
\* child directory `name` yields what is found inside that directory under the
\* same name, else that directory as a Group, whatever else matches `name.*`.
C8_DirectoryFallback ==
    \A i \in 1..Len(lstate.consulted) :
        LET dir == lstate.consulted[i]
            child == Append(dir, F(query.name))
            g == Glob(dir, query.name)
        IN  (/\ ~is_executable(child)
             /\ \A j \in 1..Len(g) : ~is_executable(g[j])
             /\ IsDir(child))
            => lstate.found[i] =
                   IF get_task_from_dir(child, query.name) # NoTask
                   THEN get_task_from_dir(child, query.name)
                   ELSE as_group(child)

\* C9 as claimed: a lookup never returns an ordinary "no value": when it returns,
\* it returns a task (and a name no root matches ends in a failure instead).
C9_NotFoundIsFailure == lstate.pc = "returned" => lstate.res # NoTask

-----------------------------------------------------------------------------
(* Claims about the container invocation, checked under SpecImage *)

\* the arguments of the user, as every activation of the run receives them
UserRef == [i \in 1..Len(stack[1].args) |-> <<stack[1].args[i]>>]

IsDocker(e) == e.ev = "spawn" /\ e.cmd = "docker"

\* the arguments of a container invocation after the image options: the --env
\* pairs, the tag, /vg-task, the arguments of the user
TailLen(e) == 2 * Cardinality(DOMAIN e.env) + 2 + Len(UserRef)

\* the arguments between the seven fixed ones and the first --env
OptionsOf(e) == SubSeq(e.args, 8, Len(e.args) - TailLen(e))

EnvPairsOf(e) == SubSeq(e.args, Len(e.args) - TailLen(e) + 1, Len(e.args) - Len(UserRef) - 2)

\* the names the --env pairs pass, in their order
KeysIn(e) == [i \in 1..Cardinality(DOMAIN e.env) |-> EnvPairsOf(e)[2 * i][1]]

TagArg(e) == e.args[Len(e.args) - Len(UserRef) - 1]

\* the image the file of a task declares
Declared(path) == The(parsed[path].image)

IsMapping(path) == parsed[path].image # None /\ Declared(path).kind = "dict"

IsBare(path) == parsed[path].image # None /\ Declared(path).kind = "str"

WithoutTag(m) == SelectSeq(m, LAMBDA it : it[1] # "tag")

\* the flattening the claim describes, item by item
RECURSIVE Flattened(_, _, _)
Flattened(m, items, args) ==
    IF m = <<>> THEN <<>>
    ELSE LET k == Head(m)[1]
             v == Head(m)[2]
             flag == <<"--" \o k>>
             one == IF v.t = "list"
                    THEN [i \in 1..(2 * Len(v.l)) |->
                             IF i % 2 = 1 THEN flag
                             ELSE insert_env_vals(v.l[i \div 2], items, args)]
                    ELSE IF v.t = "bool" THEN (IF v.b THEN <<flag>> ELSE <<>>)
                    ELSE <<flag, insert_env_vals(v.s, items, args)>>
         IN  one \o Flattened(Tail(m), items, args)

\* C11: the options of a container invocation built from an image mapping are
\* the flattening of the mapping without its tag, in the order of the mapping: a
\* --k <substituted element> pair per element of a list, the bare flag --k for
\* true and nothing for false, one --k <substituted value> pair for any other
\* value; no option is --tag.
C11_MappingFlattened ==
    \A j \in 1..Len(log) :
        (IsDocker(log[j]) /\ IsMapping(log[j].path)) =>
            /\ OptionsOf(log[j]) =
                 Flattened(WithoutTag(Declared(log[j].path).items),
                           Items(log[j].env, KeysIn(log[j])), UserRef)
            /\ \A i \in 1..Len(OptionsOf(log[j])) : OptionsOf(log[j])[i] # <<"--tag">>

\* a mapping with a list of two elements was flattened, the second element
\* substituted from the defaults of the task
C11_Witness ==
    \E j \in 1..Len(log) :
        /\ IsDocker(log[j]) /\ IsMapping(log[j].path)
        /\ OptionsOf(log[j]) = << <<"--network">>, <<"n">>, <<"--network">>, <<"d">> >>

\* C12: a bare-string image is the tag as written, without substitution; the
\* invocation holds --rm, the two labels vantage and vantage-task, no other
\* image option, and the interactive-input flag is false.
C12_BareStringImage ==
    \A j \in 1..Len(log) :
        (IsDocker(log[j]) /\ IsBare(log[j].path)) =>
            /\ TagArg(log[j]) = Declared(log[j].path).tag
            /\ OptionsOf(log[j]) = << <<"--rm">> >>
            /\ {i \in 1..Len(log[j].args) : log[j].args[i] = <<"--label">>} = {4, 6}
            /\ log[j].args[5] = <<"vantage">> /\ log[j].args[7] = <<"vantage-task">>
            /\ log[j].tty = FALSE

\* a bare string that holds a placeholder of a variable the environment defines
C12_Witness ==
    \E j \in 1..Len(log) :
        /\ IsDocker(log[j]) /\ IsBare(log[j].path)
        /\ "X" \in DOMAIN log[j].env
        /\ TagArg(log[j]) = <<"img:", "$", "X">>

\* the tag the claim describes: the string itself, or the substituted tag of a mapping
ResolvedTag(e) ==
    IF IsBare(e.path) THEN Declared(e.path).tag
    ELSE insert_env_vals(ItemOf(Declared(e.path).items, "tag").s,
                         Items(e.env, KeysIn(e)), UserRef)

\* C14: the arguments of every container invocation are, in this order: run,
\* --volume <task path>:/vg-task, --label vantage, --label vantage-task, the
\* flattened image options or --rm, one --env K pair for every key K of the
\* environment and for no other name, the resolved tag, /vg-task, the arguments
\* of the user in their order.
C14_ArgumentOrder ==
    \A j \in 1..Len(log) :
        IsDocker(log[j]) =>
            LET e == log[j]
                n == Cardinality(DOMAIN e.env)
                opts == IF IsBare(e.path) THEN << <<"--rm">> >>
                        ELSE Flattened(WithoutTag(Declared(e.path).items),
                                       Items(e.env, KeysIn(e)), UserRef)
            IN  /\ Len(e.args) = 7 + Len(opts) + 2 * n + 2 + Len(UserRef)
                /\ SubSeq(e.args, 1, 7) =
                     << <<"run">>, <<"--volume">>, <<PathStr(e.path) \o ":/vg-task">>,
                        <<"--label">>, <<"vantage">>, <<"--label">>, <<"vantage-task">> >>
                /\ SubSeq(e.args, 8, 7 + Len(opts)) = opts
                /\ \A i \in 1..n : e.args[7 + Len(opts) + 2 * i - 1] = <<"--env">>
                /\ {e.args[7 + Len(opts) + 2 * i][1] : i \in 1..n} = DOMAIN e.env
                /\ e.args[7 + Len(opts) + 2 * n + 1] = ResolvedTag(e)
                /\ e.args[7 + Len(opts) + 2 * n + 2] = <<"/vg-task">>
                /\ SubSeq(e.args, 7 + Len(opts) + 2 * n + 3, Len(e.args)) = UserRef

\* a mapping with an option, run with an environment of its defaults
C14_Witness ==
    \E j \in 1..Len(log) :
        /\ IsDocker(log[j]) /\ IsMapping(log[j].path)
        /\ "Y" \in DOMAIN log[j].env
        /\ Len(OptionsOf(log[j])) = 2
        /\ TagArg(log[j]) = <<"img:", "e">>

-----------------------------------------------------------------------------
(* Claims about the metadata of a task file, checked under SpecMeta *)

\* no line of the text holds three dashes in a row
NoSepLine(lines) ==
    \A i \in 1..Len(lines) : \A j \in 1..(Len(lines[i]) - 2) :
        ~(lines[i][j] = "-" /\ lines[i][j + 1] = "-" /\ lines[i][j + 2] = "-")

\* C13: a task file without a line that contains --- loads as the empty mapping
\* and never as an error, so that the task has no prerequisites, runs as a direct
\* invocation, and its environment is the ambient one, untouched by overrides or
\* defaults (PATH being the one of the process).
C13_NoBlockNoMeta ==
    \A p \in DOMAIN content :
        NoSepLine(content[p]) =>
            /\ p \in DOMAIN cache => cache[p] = NoMeta
            /\ \A k \in 1..Len(stack) :
                  stack[k].path = p =>
                      /\ p \in DOMAIN cache
                      /\ stack[k].pc # "call"
                      /\ k = Len(stack) => result.kind # "error"
            /\ \A j \in 1..Len(log) :
                  log[j].path = p =>
                      /\ log[j].cmd = "task"
                      /\ log[j].args = UserRef
                      /\ log[j].depth = 1 => log[j].env = SetItem(ambient, "PATH", AmbientPath)

\* the task the run starts with was spawned from a file that holds a line of two
\* dashes and none of three
C13_Witness ==
    /\ NoSepLine(content[PA])
    /\ \E i \in 1..Len(content[PA]) : content[PA][i] = <<"-", "-">>
    /\ \E j \in 1..Len(log) : log[j].path = PA /\ log[j].ev = "spawn"

\* what the first parse of the file yields
FirstParse(p) == IF NoSepLine(content[p]) THEN NoMeta ELSE parsed[p]

\* C15: in every reachable state the metadata load_meta yields for a path is what
\* the first parse of the file yielded, so a task executed twice in one run
\* builds the same invocation both times.
C15_MetaIsPure ==
    /\ \A p \in DOMAIN cache : cache[p] = FirstParse(p)
    /\ \A i, j \in 1..Len(log) :
          (log[i].ev = "spawn" /\ log[j].ev = "spawn" /\ log[i].path = log[j].path) =>
              (log[i].cmd = log[j].cmd /\ log[i].args = log[j].args /\ log[i].tty = log[j].tty)

\* C16: a task whose image is a mapping without the key tag fails, and no process
\* or container of its own is ever spawned.
C16_MissingTagNeverSpawns ==
    \A j \in 1..Len(log) :
        ~(/\ IsMapping(log[j].path)
          /\ \A i \in 1..Len(Declared(log[j].path).items) :
                Declared(log[j].path).items[i][1] # "tag")

-----------------------------------------------------------------------------
(* Claims about prerequisites and the environment of a process *)

\* the task files the requires list of p names
Direct(p) ==
    LET found == { get_task(ctxObj, parsed[p].requires[i]) : i \in 1..Len(parsed[p].requires) }
    IN  { t.path : t \in {x \in found : x.kind = "Leaf"} }

\* the task files reached from the set S in at most n more steps
RECURSIVE Reached(_, _)
Reached(S, n) ==
    LET more == S \cup UNION {Direct(q) : q \in S}
    IN  IF n = 0 \/ more = S THEN S ELSE Reached(more, n - 1)

\* the requires chain of p names p itself, directly or transitively
OnCycle(p) == p \in Reached(Direct(p), Cardinality(DOMAIN parsed))

\* C17: there is no cycle guard. An activation whose run-required flag is true
\* and whose requires chain names its own task never reaches the invocation of
\* its process: it stays in the loop of its prerequisites, each of which starts
\* a deeper activation (followed here down to MaxDepth activations).
C17_CycleNeverInvokes ==
    \A k \in 1..Len(stack) :
        (stack[k].rr /\ OnCycle(stack[k].path)) =>
            /\ stack[k].pc \in {"loop", "call"}
            /\ \A j \in 1..Len(log) :
                  ~(log[j].path = stack[k].path /\ log[j].depth = k /\ j > stack[k].start)

\* the chain a, b, a is on the stack, every activation with the flag true
C17_Witness ==
    /\ Len(stack) = MaxDepth
    /\ stack[1].path = PA /\ stack[2].path = PB /\ stack[Len(stack)].path = PA
    /\ \A k \in 1..Len(stack) : stack[k].rr /\ OnCycle(stack[k].path)

\* C18: a task without an image is run as its own file, without interactive
\* input; PATH of its environment is the PATH of the orchestrator's process, the
\* empty string when that has none, whatever the overrides and defaults set;
\* every other key is as the composed environment has it.
C18_DirectInvocation ==
    [][(Invoke /\ ~ImageTruthy(cache[Top.path].image)) =>
          LET e == Last(log')
              composed == EnvOf(Top)
          IN  /\ Len(log') = Len(log) + 1
              /\ e.cmd = "task" /\ e.exe = PathStr(Top.path) /\ e.tty = FALSE
              /\ e.args = UserRef
              /\ e.env["PATH"] = (IF osPath = None THEN "" ELSE The(osPath))
              /\ DOMAIN e.env = DOMAIN composed \cup {"PATH"}
              /\ \A key \in DOMAIN composed \ {"PATH"} : e.env[key] = composed[key]]_vars

\* the overrides of the task set PATH, the process of the orchestrator has none,
\* and the task was spawned with an empty PATH
C18_Witness ==
    /\ osPath = None
    /\ \E j \in 1..Len(log) :
          /\ log[j].ev = "spawn" /\ log[j].cmd = "task"
          /\ parsed[log[j].path].overrides = Some([PATH |-> "/o"])
          /\ log[j].env["PATH"] = ""

\* the composition of the ambient environment with the overrides and defaults of
\* the task at p alone: overrides over ambient over defaults
OwnComposition(p) ==
    Update(Update(OrEmpty(FirstParse(p).defaults), ambient), OrEmpty(FirstParse(p).overrides))

\* C19: the environment a task's process is given is the composition of the
\* ambient environment with the overrides and defaults of that task only (PATH
\* being forced for a task without an image); what other tasks of the run
\* declare does not show in it.
C19_EnvironmentIsolation ==
    \A j \in 1..Len(log) :
        log[j].ev = "spawn" =>
            log[j].env = IF log[j].cmd = "task"
                         THEN SetItem(OwnComposition(log[j].path), "PATH", AmbientPath)
                         ELSE OwnComposition(log[j].path)

====
